---- MODULE Spec2Model ----
(***************************************************************************)
(* Model of streamlit_app.py: the perception dashboard.                    *)
(*                                                                         *)
(* The script is one top-to-bottom run per render.  A render loads the     *)
(* sheet set through the cached loader, draws the sidebar, and then visits *)
(* four sections (Overall Summary, Top Strengths, Areas to Improve,       *)
(* Yearly Trend).  An uncaught exception ends the render where it is       *)
(* raised; a user interaction (moving the slider) starts the next render.  *)
(*                                                                         *)
(* Numbers are fixed-point, in hundredths: the float 0.8 is 80, the float  *)
(* 1.0 is One, the float 80.0 is 8000.                                     *)
(***************************************************************************)
EXTENDS Integers, Sequences, FiniteSets, TLC

VARIABLES
    disk,            \* the file at default_path: Broken, or its sheet set
    cache,           \* st.cache_data's entry for load_excel(path): NoEntry or a sheet set
    sheets,          \* the render's `sheets` (NoSheets before line 46)
    pc,              \* position of the render in the script
    slider,          \* the slider widget's value (session state)
    top_n,           \* the render's `top_n`
    out,             \* the UI elements the render has emitted, in order
    strengths_disp,  \* the render's `strengths_disp`
    improve_disp,    \* the render's `improve_disp`
    renders,         \* renders started so far
    reads,           \* times the file was opened by pd.ExcelFile
    parses,          \* times the file was parsed into a sheet set
    calls,           \* load_excel calls of the current render
    first,           \* the first sheet set load_excel returned (NoSheets before)
    returned,        \* what load_excel returned to the current render
    cleared,         \* whether the cache was cleared explicitly
    pv, p1, p2, ppc  \* to_pct applied to a value, and to its own result

vars == <<disk, cache, sheets, pc, slider, top_n, out, strengths_disp,
          improve_disp, renders, reads, parses, calls, first, returned,
          cleared, pv, p1, p2, ppc>>

renderVars == <<disk, cache, sheets, pc, slider, top_n, out, strengths_disp,
                improve_disp, renders, reads, parses, calls, first, returned,
                cleared>>

pctVars == <<pv, p1, p2, ppc>>

(***************************************************************************)
(* Bounds of the model.                                                    *)
(***************************************************************************)
MaxPct == 300        \* to_pct inputs range up to 3.00
MaxNeg == 5          \* ... and down to -0.05
MaxTopN == 5         \* slider positions explored: SliderMin..MaxTopN
MaxRenders == 2      \* renders per behaviour
NRows == 4           \* rows of a Top Strengths / Areas to Improve table

(***************************************************************************)
(* Cells.  A cell is a number, a text or missing (NaN / None).             *)
(***************************************************************************)
Num(x) == [t |-> "num", n |-> x, s |-> ""]
Str(x) == [t |-> "str", n |-> 0, s |-> x]
NaN == [t |-> "na", n |-> 0, s |-> ""]
None == NaN          \* a None stored by Series.apply reads back as missing

isna(c) == c.t = "na"

One == 100           \* the literal 1 of `v <= 1`, in hundredths

\* v*100 if v <= 1 else v, with the comparison strict: a plausible slip
to_pct_strict(v) ==
    IF isna(v) THEN None
    ELSE IF v.n < One THEN Num(v.n * 100) ELSE v

\* the scaling applied whatever the magnitude
to_pct_always(v) ==
    IF isna(v) THEN None ELSE Num(v.n * 100)

to_pct(v) ==
    IF isna(v) THEN None
    ELSE IF v.n <= One THEN Num(v.n * 100) ELSE v

(***************************************************************************)
(* The normalizer on its own: a value in, to_pct applied, applied again.   *)
(***************************************************************************)
PctInputs == {NaN} \cup {Num(x) : x \in (0 - MaxNeg)..MaxPct}

Range(f) == {f[i] : i \in DOMAIN f}

(***************************************************************************)
(* Tables (pandas DataFrames): ordered column names, the row labels, and   *)
(* one sequence of cells per column.                                       *)
(***************************************************************************)
RangeIndex(n) == [i \in 1..n |-> i - 1]

DF(columns, col) ==
    [columns |-> columns,
     index   |-> RangeIndex(IF Len(columns) = 0 THEN 0 ELSE Len(col[columns[1]])),
     col     |-> col]

NoDF == [columns |-> <<>>, index |-> <<>>, col |-> <<>>]

NRowsOf(df) == Len(df.index)

\* DataFrame.empty: no columns or no rows
Empty(df) == Len(df.columns) = 0 \/ Len(df.index) = 0

HasCol(df, c) == c \in Range(df.columns)

\* df[c] = df[c].apply(to_pct)
ApplyToPct(df, c) ==
    [df EXCEPT !.col[c] = [i \in DOMAIN @ |-> to_pct(@[i])]]

\* the rows at positions p[1], p[2], ..., labels kept
TakeRows(df, p) ==
    [df EXCEPT !.index = [i \in DOMAIN p |-> df.index[p[i]]],
               !.col = [c \in DOMAIN df.col |-> [i \in DOMAIN p |-> df.col[c][p[i]]]]]

Min(a, b) == IF a <= b THEN a ELSE b

\* DataFrame.head(n)
HeadRows(df, n) == TakeRows(df, [i \in 1..Min(n, NRowsOf(df)) |-> i])

\* DataFrame.reset_index(drop=True)
ResetIndex(df) == [df EXCEPT !.index = RangeIndex(NRowsOf(df))]

RECURSIVE Perms(_)
Perms(S) ==
    IF S = {} THEN {<<>>}
    ELSE UNION {{<<x>> \o p : p \in Perms(S \ {x})} : x \in S}

\* Row orders DataFrame.sort_values(c, ascending) may return.  The default
\* kind is quicksort, which orders the keys and promises nothing about rows
\* with equal keys; missing keys go last (na_position="last"), in row order.
SortOrders(df, c, ascending) ==
    LET key == df.col[c]
        n == NRowsOf(df)
        InOrder(a, b) == IF ascending THEN key[a].n <= key[b].n
                                      ELSE key[a].n >= key[b].n
    IN {p \in Perms(1..n) :
          \A i, j \in 1..n : i < j =>
              \/ isna(key[p[j]]) /\ (isna(key[p[i]]) => p[i] < p[j])
              \/ ~isna(key[p[i]]) /\ ~isna(key[p[j]]) /\ InOrder(p[i], p[j])}

\* str.lower() on the names and labels the sheets of the model use
Lower(s) ==
    CASE s = "Positive"   -> "positive"
      [] s = "POSITIVE"   -> "positive"
      [] s = "Neutral"    -> "neutral"
      [] s = "Negative"   -> "negative"
      [] s = "NEGATIVE"   -> "negative"
      [] s = "Positive %" -> "positive %"
      [] s = "POSITIVE %" -> "positive %"
      [] s = "Year"       -> "year"
      [] s = "Category"   -> "category"
      [] s = "Notes"      -> "notes"
      [] OTHER            -> s

\* f"{x:.1f}" and Series.round(1): hundredths to the nearest tenth, given
\* back in hundredths (the model's cells never end in a 5, so no tie arises)
Round1(x) ==
    IF x >= 0 THEN ((x + 5) \div 10) * 10 ELSE 0 - (((0 - x) + 5) \div 10) * 10

\* melt with the rows of one x value kept together instead: a plausible slip
MeltRowMajor(df, x, vs) ==
    LET n == NRowsOf(df)
        w == Len(vs)
        m == n * w
        blk(k) == ((k - 1) % w) + 1
        row(k) == ((k - 1) \div w) + 1
    IN [columns |-> <<x, "Category", "Percent">>,
        index   |-> RangeIndex(m),
        col     |-> [c \in {x, "Category", "Percent"} |->
                       [k \in 1..m |->
                          IF c = "Category" THEN Str(vs[blk(k)])
                          ELSE IF c = "Percent" THEN df.col[vs[blk(k)]][row(k)]
                          ELSE df.col[x][row(k)]]]]

\* DataFrame.melt(id_vars=[x], value_vars=vs, var_name="Category",
\* value_name="Percent"): one block of rows per value column, in the order
\* of vs, each block in row order
Melt(df, x, vs) ==
    LET n == NRowsOf(df)
        m == n * Len(vs)
        blk(k) == ((k - 1) \div n) + 1
        row(k) == ((k - 1) % n) + 1
    IN [columns |-> <<x, "Category", "Percent">>,
        index   |-> RangeIndex(m),
        col     |-> [c \in {x, "Category", "Percent"} |->
                       [k \in 1..m |->
                          IF c = "Category" THEN Str(vs[blk(k)])
                          ELSE IF c = "Percent" THEN df.col[vs[blk(k)]][row(k)]
                          ELSE df.col[x][row(k)]]]]

\* [c for c in cols if keep(c)], order kept
RECURSIVE SelectCols(_, _)
SelectCols(cols, names) ==
    IF cols = <<>> THEN <<>>
    ELSE (IF Lower(Head(cols)) \in names THEN <<Head(cols)>> ELSE <<>>)
         \o SelectCols(Tail(cols), names)

(***************************************************************************)
(* Sheet sets.  A loaded workbook maps the names of its sheets to tables;  *)
(* Nothing stands for "no sheet set" (a file that cannot be read, an       *)
(* empty cache, a render that has not loaded yet).                         *)
(***************************************************************************)
SheetSet(f) == [ok |-> TRUE, tab |-> f]
Nothing == [ok |-> FALSE, tab |-> <<>>]
Broken == Nothing       \* the file is missing, unreadable or no workbook
NoEntry == Nothing      \* the cache holds no entry for the path
NoSheets == Nothing     \* `sheets` is not assigned yet

OVERALL == "Overall Summary"
STRENGTHS == "Top Strengths"
IMPROVE == "Areas to Improve"
TREND == "Yearly Trend"
Sections == <<OVERALL, STRENGTHS, IMPROVE, TREND>>
SheetNames == Range(Sections)

\* sheets.get(name) is None
Absent(ss, name) == name \notin DOMAIN ss.tab

\* `x is None or x.empty`
AbsentOrEmpty(ss, name) == Absent(ss, name) \/ Empty(ss.tab[name])

(***************************************************************************)
(* UI elements, as the render emits them.                                  *)
(***************************************************************************)
SidebarHeader == [kind |-> "sidebar.header", text |-> "Data Source"]
SheetList(names) == [kind |-> "sidebar.sheets", names |-> names]
Slider(lo, hi, value) == [kind |-> "sidebar.slider", lo |-> lo, hi |-> hi, value |-> value]
Markdown(section) == [kind |-> "markdown", section |-> section]
Info(section) == [kind |-> "info", section |-> section]
Metric(label, value) == [kind |-> "metric", label |-> label, value |-> value]
Donut(values, labels) == [kind |-> "donut", section |-> OVERALL, values |-> values, labels |-> labels]
Bar(x, y, text) == [kind |-> "bar", section |-> OVERALL, x |-> x, y |-> y, text |-> text]
Stacked(section, x, pos, neu, neg) ==
    [kind |-> "stacked", section |-> section, x |-> x, pos |-> pos, neu |-> neu, neg |-> neg]
Line(x, y, color) == [kind |-> "line", section |-> TREND, x |-> x, y |-> y, color |-> color]
Table(section, df) == [kind |-> "dataframe", section |-> section, df |-> df]
Exception(type) == [kind |-> "exception", type |-> type]
Caption == [kind |-> "caption"]

ChartKinds == {"donut", "bar", "stacked", "line"}

\* the outcome of a stretch of the script: the elements it emits, the sheet
\* set it leaves, and whether it ended in an uncaught exception
Outcome(elems, ss, raised) == [elems |-> elems, sheets |-> ss, raised |-> raised]

SliderMin == 3
SliderMax == 15
SliderDefault == 5

(***************************************************************************)
(* metric_block and the Overall Summary section.                           *)
(***************************************************************************)
\* st.metric(title, f"{to_pct(value):.1f}%"); formatting None raises TypeError
metric_block(title, value) ==
    LET p == to_pct(value)
    IN IF isna(p) THEN [raised |-> TRUE, elems |-> <<>>]
       ELSE [raised |-> FALSE, elems |-> <<Metric(title, Round1(p.n))>>]

\* the body of the loop over the three labels: any exception is swallowed
MetricFor(overall, label) ==
    IF ~HasCol(overall, "Category") THEN <<>>
    ELSE LET cat == overall.col["Category"]
             hits == {i \in DOMAIN cat : cat[i].t = "str" /\ Lower(cat[i].s) = Lower(label)}
         IN IF hits = {} THEN <<>>
            ELSE LET first_hit == CHOOSE i \in hits : \A j \in hits : i <= j
                 IN metric_block(label, overall.col["Percentage"][first_hit]).elems

RoundCol(c) == [i \in DOMAIN c |-> IF isna(c[i]) THEN c[i] ELSE Num(Round1(c[i].n))]

OverallSection(ss) ==
    IF AbsentOrEmpty(ss, OVERALL) THEN Outcome(<<Info(OVERALL)>>, ss, FALSE)
    ELSE IF ~HasCol(ss.tab[OVERALL], "Percentage")
         THEN Outcome(<<Exception("KeyError")>>, ss, TRUE)
    ELSE LET overall == ApplyToPct(ss.tab[OVERALL], "Percentage")
             after == [ss EXCEPT !.tab[OVERALL] = overall]
             metrics == MetricFor(overall, "Positive") \o MetricFor(overall, "Neutral")
                        \o MetricFor(overall, "Negative")
         IN IF ~HasCol(overall, "Category")
            THEN Outcome(metrics \o <<Exception("KeyError")>>, after, TRUE)
            ELSE Outcome(metrics \o
                         <<Donut(overall.col["Percentage"], overall.col["Category"]),
                           Bar(overall.col["Category"], overall.col["Percentage"],
                               RoundCol(overall.col["Percentage"]))>>,
                         after, FALSE)

(***************************************************************************)
(* make_stacked_bar and the two Top-N sections.                            *)
(***************************************************************************)
SeriesCols == <<"Positive", "Neutral", "Negative">>

ApplyToPct3(df) == ApplyToPct(ApplyToPct(ApplyToPct(df, "Positive"), "Neutral"), "Negative")

make_stacked_bar(df, y_col, title) ==
    IF \E c \in Range(SeriesCols) \cup {y_col} : ~HasCol(df, c)
    THEN [raised |-> TRUE, elems |-> <<Exception("KeyError")>>]
    ELSE LET plot_df == ApplyToPct3(df)
         IN [raised |-> FALSE,
             elems |-> <<Stacked(title, plot_df.col[y_col], plot_df.col["Positive"],
                                 plot_df.col["Neutral"], plot_df.col["Negative"])>>]

\* the outcomes of a Top-N section, one per row order sort_values may return;
\* disp is the section's *_disp table (NoDF when it is never assigned)
TopNSection(ss, name, ascending, n) ==
    IF AbsentOrEmpty(ss, name)
    THEN {[out |-> Outcome(<<Info(name)>>, ss, FALSE), disp |-> NoDF]}
    ELSE IF \E c \in Range(SeriesCols) : ~HasCol(ss.tab[name], c)
         THEN {[out |-> Outcome(<<Exception("KeyError")>>, ss, TRUE), disp |-> NoDF]}
    ELSE LET normal == ApplyToPct3(ss.tab[name])
         IN {LET disp == HeadRows(TakeRows(normal, p), n)
                 fig == make_stacked_bar(disp, "Question", name)
             IN [out |-> Outcome(IF fig.raised THEN fig.elems
                                 ELSE fig.elems \o <<Table(name, ResetIndex(disp))>>,
                                 ss, fig.raised),
                 disp |-> disp]
             : p \in SortOrders(normal, "Positive", ascending)}

(***************************************************************************)
(* The Yearly Trend section.                                               *)
(***************************************************************************)
LowerAll(cols) == [i \in DOMAIN cols |-> Lower(cols[i])]

\* list.index(x): the first position holding x
IndexOf(seq, x) == CHOOSE i \in DOMAIN seq : seq[i] = x /\ \A j \in 1..(i - 1) : seq[j] # x

\* DataFrame.rename(columns={old: new})
Rename(df, old, new) ==
    [df EXCEPT !.columns = [i \in DOMAIN @ |-> IF @[i] = old THEN new ELSE @[i]],
               !.col = [c \in (DOMAIN @ \ {old}) \cup {new} |->
                          IF c = new THEN df.col[old] ELSE df.col[c]]]

RECURSIVE ApplyToPctAll(_, _)
ApplyToPctAll(df, cs) ==
    IF cs = <<>> THEN df ELSE ApplyToPctAll(ApplyToPct(df, Head(cs)), Tail(cs))

TrendSeriesNames == {"positive", "neutral", "negative"}

TrendSection(ss) ==
    IF AbsentOrEmpty(ss, TREND) THEN Outcome(<<Info(TREND)>>, ss, FALSE)
    ELSE LET trend == ss.tab[TREND]
             cols == LowerAll(trend.columns)
         IN IF "positive %" \in Range(cols)
            THEN LET t == Rename(trend, trend.columns[IndexOf(cols, "positive %")], "Positive %")
                 IN Outcome(<<Line(t.col[t.columns[1]], t.col["Positive %"], <<>>),
                              Table(TREND, t)>>, ss, FALSE)
            ELSE LET vs == SelectCols(trend.columns, TrendSeriesNames)
                     normal == ApplyToPctAll(trend, vs)
                     melted == Melt(normal, normal.columns[1], vs)
                 IN Outcome(<<Line(melted.col[melted.columns[1]], melted.col["Percent"],
                                   melted.col["Category"]),
                              Table(TREND, normal)>>,
                            [ss EXCEPT !.tab[TREND] = normal], FALSE)

(***************************************************************************)
(* The cached loader.  st.cache_data keys the entry by the argument, keeps *)
(* it until the cache is cleared, stores nothing when the function raises, *)
(* and hands every caller its own copy of the stored value.                *)
(***************************************************************************)
\* the loader without the cache: a plausible slip
load_excel_uncached(entry, file) ==
    [raised |-> ~file.ok, value |-> file, entry |-> entry,
     read |-> TRUE, parsed |-> file.ok]

\* the loader handing back an empty sheet set when the file cannot be read
load_excel_lenient(entry, file) ==
    IF entry.ok
    THEN [raised |-> FALSE, value |-> entry, entry |-> entry,
          read |-> FALSE, parsed |-> FALSE]
    ELSE IF file.ok
         THEN [raised |-> FALSE, value |-> file, entry |-> file,
               read |-> TRUE, parsed |-> TRUE]
         ELSE [raised |-> FALSE, value |-> SheetSet(<<>>), entry |-> entry,
               read |-> TRUE, parsed |-> FALSE]

\* load_excel(str(default_path)) with the cache entry `entry` and the file
\* `file` on disk: what it returns or that it raises, the entry afterwards,
\* and whether the file was opened and parsed
load_excel(entry, file) ==
    IF entry.ok
    THEN [raised |-> FALSE, value |-> entry, entry |-> entry,
          read |-> FALSE, parsed |-> FALSE]
    ELSE IF file.ok
         THEN [raised |-> FALSE, value |-> file, entry |-> file,
               read |-> TRUE, parsed |-> TRUE]
         ELSE [raised |-> TRUE, value |-> NoSheets, entry |-> entry,
               read |-> TRUE, parsed |-> FALSE]

(***************************************************************************)
(* The render, one action per stretch of the script.                       *)
(***************************************************************************)
\* lines 43-46: the sidebar header and the load
Load ==
    /\ pc = "load"
    /\ LET r == load_excel(cache, disk)
       IN /\ cache' = r.entry
          /\ sheets' = r.value
          /\ returned' = r.value
          /\ first' = IF first.ok \/ r.raised THEN first ELSE r.value
          /\ reads' = reads + (IF r.read THEN 1 ELSE 0)
          /\ parses' = parses + (IF r.parsed THEN 1 ELSE 0)
          /\ out' = IF r.raised THEN <<SidebarHeader, Exception("LoadError")>>
                    ELSE <<SidebarHeader>>
          /\ pc' = IF r.raised THEN "crashed" ELSE "sidebar"
    /\ calls' = calls + 1
    /\ UNCHANGED <<disk, slider, top_n, strengths_disp, improve_disp, renders, cleared>>
    /\ UNCHANGED pctVars

\* lines 49-53: the list of sheets and the slider
Sidebar ==
    /\ pc = "sidebar"
    /\ out' = out \o <<SheetList(DOMAIN sheets.tab), Slider(SliderMin, SliderMax, slider)>>
    /\ top_n' = slider
    /\ pc' = "overview"
    /\ UNCHANGED <<disk, cache, sheets, slider, strengths_disp, improve_disp, renders,
                   reads, parses, calls, first, returned, cleared>>
    /\ UNCHANGED pctVars

\* lines 56-80
Overview ==
    /\ pc = "overview"
    /\ LET r == OverallSection(sheets)
       IN /\ out' = out \o <<Markdown(OVERALL)>> \o r.elems
          /\ sheets' = r.sheets
          /\ pc' = IF r.raised THEN "crashed" ELSE "strengths"
    /\ UNCHANGED <<disk, cache, slider, top_n, strengths_disp, improve_disp, renders,
                   reads, parses, calls, first, returned, cleared>>
    /\ UNCHANGED pctVars

\* lines 83-96
Strengths ==
    /\ pc = "strengths"
    /\ \E r \in TopNSection(sheets, STRENGTHS, FALSE, top_n) :
          /\ out' = out \o <<Markdown(STRENGTHS)>> \o r.out.elems
          /\ sheets' = r.out.sheets
          /\ strengths_disp' = r.disp
          /\ pc' = IF r.out.raised THEN "crashed" ELSE "improve"
    /\ UNCHANGED <<disk, cache, slider, top_n, improve_disp, renders,
                   reads, parses, calls, first, returned, cleared>>
    /\ UNCHANGED pctVars

\* lines 99-112
Improve ==
    /\ pc = "improve"
    /\ \E r \in TopNSection(sheets, IMPROVE, TRUE, top_n) :
          /\ out' = out \o <<Markdown(IMPROVE)>> \o r.out.elems
          /\ sheets' = r.out.sheets
          /\ improve_disp' = r.disp
          /\ pc' = IF r.out.raised THEN "crashed" ELSE "trend"
    /\ UNCHANGED <<disk, cache, slider, top_n, strengths_disp, renders,
                   reads, parses, calls, first, returned, cleared>>
    /\ UNCHANGED pctVars

\* lines 115-143
Trend ==
    /\ pc = "trend"
    /\ LET r == TrendSection(sheets)
       IN /\ out' = out \o <<Markdown(TREND)>> \o r.elems
                    \o (IF r.raised THEN <<>> ELSE <<Caption>>)
          /\ sheets' = r.sheets
          /\ pc' = IF r.raised THEN "crashed" ELSE "done"
    /\ UNCHANGED <<disk, cache, slider, top_n, strengths_disp, improve_disp, renders,
                   reads, parses, calls, first, returned, cleared>>
    /\ UNCHANGED pctVars

Finished == pc \in {"done", "crashed"}

SliderPositions == SliderMin..Min(MaxTopN, SliderMax)

\* the user moves the slider: the script runs again from the top, with the
\* session's widget value and the cache kept and everything else fresh
Rerun ==
    /\ Finished
    /\ renders < MaxRenders
    /\ slider' \in SliderPositions
    /\ renders' = renders + 1
    /\ pc' = "load"
    /\ sheets' = NoSheets
    /\ returned' = NoSheets
    /\ top_n' = 0
    /\ out' = <<>>
    /\ strengths_disp' = NoDF
    /\ improve_disp' = NoDF
    /\ calls' = 0
    /\ UNCHANGED <<disk, cache, reads, parses, first, cleared>>
    /\ UNCHANGED pctVars

(***************************************************************************)
(* The workbooks the model reads.                                          *)
(***************************************************************************)
EmptyOf(columns) == DF(columns, [c \in Range(columns) |-> <<>>])

\* Overall Summary -------------------------------------------------------
PctVals == {NaN, Num(1), Num(60), Num(One), Num(4000)}

OverallCols == <<"Category", "Percentage">>
OverallLabels == <<Str("Positive"), Str("neutral"), Str("NEGATIVE")>>

OverallOf(labels, pcts) ==
    DF(OverallCols, [c \in Range(OverallCols) |-> IF c = "Category" THEN labels ELSE pcts])

OverallGood == OverallOf(OverallLabels, <<Num(60), Num(30), Num(10)>>)

\* the sheet without its Percentage column, and without its Category column
OverallNoPercentage ==
    DF(<<"Category", "Pct">>,
       [c \in {"Category", "Pct"} |->
          IF c = "Category" THEN OverallLabels ELSE <<Num(60), Num(30), Num(10)>>])
OverallNoCategory ==
    DF(<<"Label", "Percentage">>,
       [c \in {"Label", "Percentage"} |->
          IF c = "Label" THEN OverallLabels ELSE <<Num(60), Num(30), Num(10)>>])

OverallTables ==
    {OverallOf(OverallLabels, p) : p \in [1..3 -> PctVals]}
    \cup {OverallOf(<<Str("Positive"), Str("Negative")>>, <<Num(6000), Num(4000)>>),
          OverallNoPercentage, OverallNoCategory}

\* Top Strengths / Areas to Improve --------------------------------------
RankVals == {NaN, Num(50), Num(9000)}

QuestionCols == <<"Question", "Positive", "Neutral", "Negative">>

QuestionsOf(columns, pos) ==
    DF(columns,
       [c \in Range(columns) |->
          IF c = columns[1] THEN [i \in DOMAIN pos |-> Str("Q" \o ToString(i - 1))]
          ELSE IF c = columns[2] THEN pos
          ELSE IF c = columns[3] THEN [i \in DOMAIN pos |-> Num(5)]
          ELSE [i \in DOMAIN pos |-> Num(1)]])

\* the ranking values 10, 90, 50, 90
RankExample == <<Num(1000), Num(9000), Num(5000), Num(9000)>>

QuestionsGood == QuestionsOf(QuestionCols, RankExample)
QuestionsNoPositive == QuestionsOf(<<"Question", "Score", "Neutral", "Negative">>, RankExample)
QuestionsNoQuestion == QuestionsOf(<<"Item", "Positive", "Neutral", "Negative">>, RankExample)

QuestionTables ==
    {QuestionsOf(QuestionCols, p) : p \in [1..NRows -> RankVals]}
    \cup {QuestionsGood, QuestionsNoPositive, QuestionsNoQuestion,
          QuestionsOf(<<"Question", "Positive", "Neutral", "Neg">>, RankExample)}

\* Yearly Trend ----------------------------------------------------------
Years == <<Num(202000), Num(202100)>>

TrendVecs == {<<Num(80), Num(90)>>, <<Num(15), Num(5)>>, <<Num(5), Num(5)>>,
              <<NaN, Num(1)>>, <<Num(8000), Num(One)>>}

\* the column layouts: the time axis first, then the series
TrendLayouts == {<<"Year", "Positive %">>,
                 <<"Year", "POSITIVE %">>,
                 <<"Year", "Positive", "Neutral", "Negative">>,
                 <<"Year", "NEGATIVE", "Positive">>,
                 <<"Year", "Notes">>,
                 <<"Year", "Positive", "Positive %">>}

TrendTablesOf(columns) ==
    LET series == Range(columns) \ {"Year"}
    IN {DF(columns, [c \in Range(columns) |-> IF c = "Year" THEN Years ELSE f[c]])
          : f \in [series -> TrendVecs]}

TrendTables == UNION {TrendTablesOf(l) : l \in TrendLayouts}

TrendWide ==
    DF(<<"Year", "Positive", "Neutral", "Negative">>,
       [c \in {"Year", "Positive", "Neutral", "Negative"} |->
          CASE c = "Year" -> Years
            [] c = "Positive" -> <<Num(80), Num(90)>>
            [] c = "Neutral" -> <<Num(15), Num(5)>>
            [] OTHER -> <<Num(5), Num(5)>>])

TrendSingle ==
    DF(<<"Year", "Positive %">>,
       [c \in {"Year", "Positive %"} |-> IF c = "Year" THEN Years ELSE <<Num(80), Num(90)>>])

\* Whole workbooks -------------------------------------------------------
\* one table per sheet and kind: absent, empty, as expected, or the variant
\* (a column missing; for the trend, the single-series layout)
Kinds == {"absent", "empty", "good", "variant"}

TableOf(name, kind) ==
    CASE kind = "empty" /\ name = OVERALL -> EmptyOf(OverallCols)
      [] kind = "empty" /\ name = TREND -> EmptyOf(<<"Year", "Positive", "Neutral", "Negative">>)
      [] kind = "empty" -> EmptyOf(QuestionCols)
      [] kind = "good" /\ name = OVERALL -> OverallGood
      [] kind = "good" /\ name = TREND -> TrendWide
      [] kind = "good" -> QuestionsGood
      [] kind = "variant" /\ name = OVERALL -> OverallNoPercentage
      [] kind = "variant" /\ name = STRENGTHS -> QuestionsNoPositive
      [] kind = "variant" /\ name = IMPROVE -> QuestionsNoQuestion
      [] OTHER -> TrendSingle

Workbook(kinds) ==
    SheetSet([n \in {m \in SheetNames : kinds[m] # "absent"} |-> TableOf(n, kinds[n])])

GoodWorkbook == Workbook([n \in SheetNames |-> "good"])

\* the good workbook with one sheet replaced
With(name, df) == [GoodWorkbook EXCEPT !.tab[name] = df]

Workbooks ==
    {Workbook(k) : k \in [SheetNames -> Kinds]}
    \cup {With(OVERALL, t) : t \in OverallTables}
    \cup {With(STRENGTHS, t) : t \in QuestionTables}
    \cup {With(IMPROVE, t) : t \in QuestionTables}
    \cup {With(TREND, t) : t \in TrendTables}

\* the workbooks the cache is exercised with: every sheet of the same kind,
\* or one sheet the variant
CacheWorkbooks ==
    {Workbook([n \in SheetNames |-> k]) : k \in Kinds}
    \cup {Workbook([n \in SheetNames |-> IF n = m THEN "variant" ELSE "good"]) : m \in SheetNames}

(***************************************************************************)
(* The environment of the cache: the file changes on disk, the user clears *)
(* the cache from the menu.                                                *)
(***************************************************************************)
ModifyFile ==
    /\ Finished
    /\ disk' \in (CacheWorkbooks \cup {Broken}) \ {disk}
    /\ UNCHANGED <<cache, sheets, pc, slider, top_n, out, strengths_disp, improve_disp,
                   renders, reads, parses, calls, first, returned, cleared>>
    /\ UNCHANGED pctVars

ClearCache ==
    /\ Finished
    /\ cache.ok
    /\ cache' = NoEntry
    /\ cleared' = TRUE
    /\ UNCHANGED <<disk, sheets, pc, slider, top_n, out, strengths_disp, improve_disp,
                   renders, reads, parses, calls, first, returned>>
    /\ UNCHANGED pctVars

(***************************************************************************)
(* to_pct on its own.                                                      *)
(***************************************************************************)
ApplyOnce ==
    /\ ppc = "in"
    /\ p1' = to_pct(pv)
    /\ ppc' = "once"
    /\ UNCHANGED <<pv, p2>>
    /\ UNCHANGED renderVars

ApplyTwice ==
    /\ ppc = "once"
    /\ p2' = to_pct(p1)
    /\ ppc' = "twice"
    /\ UNCHANGED <<pv, p1>>
    /\ UNCHANGED renderVars

(***************************************************************************)
(* Specifications.                                                         *)
(***************************************************************************)
InitRender(files) ==
    /\ disk \in files
    /\ cache = NoEntry
    /\ sheets = NoSheets
    /\ returned = NoSheets
    /\ first = NoSheets
    /\ pc = "load"
    /\ slider = SliderDefault
    /\ top_n = 0
    /\ out = <<>>
    /\ strengths_disp = NoDF
    /\ improve_disp = NoDF
    /\ renders = 1
    /\ reads = 0
    /\ parses = 0
    /\ calls = 0
    /\ cleared = FALSE

PctIdle == pv = NaN /\ p1 = NaN /\ p2 = NaN /\ ppc = "idle"

Init == InitRender(Workbooks \cup {Broken}) /\ PctIdle

Next == Load \/ Sidebar \/ Overview \/ Strengths \/ Improve \/ Trend \/ Rerun

Spec == Init /\ [][Next]_vars

\* the renders with the file changing and the cache cleared in between
InitCache == InitRender(CacheWorkbooks \cup {Broken}) /\ PctIdle

NextCache ==
    Load \/ Sidebar \/ Overview \/ Strengths \/ Improve \/ Trend \/ Rerun
    \/ ModifyFile \/ ClearCache

SpecCache == InitCache /\ [][NextCache]_vars

\* the normalizer applied to every input of PctInputs, then to its result
InitPct ==
    /\ InitRender({Broken})
    /\ pv \in PctInputs
    /\ p1 = NaN
    /\ p2 = NaN
    /\ ppc = "in"

NextPct == ApplyOnce \/ ApplyTwice

SpecPct == InitPct /\ [][NextPct]_vars

(***************************************************************************)
(* Properties.                                                             *)
(***************************************************************************)
Applied == ppc \in {"once", "twice"}

\* C1: to_pct returns missing for a missing input, v*100 for every input
\* v <= 1 (an input of exactly 1 gives 100), and v itself for every v > 1.
C1_ToPctContract ==
    Applied =>
        /\ isna(pv) => isna(p1)
        /\ (~isna(pv) /\ pv.n <= One) => (~isna(p1) /\ p1.n = pv.n * 100)
        /\ (~isna(pv) /\ pv.n > One) => p1 = pv

C1_Witness == ppc = "once" /\ pv = Num(One) /\ p1 = Num(100 * One)

\* C10, as stated: applying to_pct to its own result changes nothing; for
\* v > 1 both applications give v, and for 0 < v <= 1 the first result is
\* v*100, is above 1, and passes through the second application unchanged.
C10_SecondPassUnchanged ==
    (ppc = "twice" /\ ~isna(pv)) =>
        /\ pv.n > One => (p1 = pv /\ p2 = p1)
        /\ (pv.n > 0 /\ pv.n <= One) =>
              (p1 = Num(pv.n * 100) /\ p1.n > One /\ p2 = p1 /\ p1 # pv)

\* C10, amended: for v > 1 both applications give v; for 0.01 < v <= 1 the
\* first result v*100 is above 1 and the second application leaves it; for
\* 0 < v <= 0.01 the first result v*100 is still at most 1 and the second
\* application scales it again, to v*10000.
C10_SecondPassAmended ==
    (ppc = "twice" /\ ~isna(pv)) =>
        /\ pv.n > One => (p1 = pv /\ p2 = p1)
        /\ (pv.n * 100 > One /\ pv.n <= One) =>
              (p1 = Num(pv.n * 100) /\ p1.n > One /\ p2 = p1 /\ p1 # pv)
        /\ (pv.n > 0 /\ pv.n * 100 <= One) =>
              (p1 = Num(pv.n * 100) /\ p1.n <= One /\ p2 = Num(pv.n * 10000) /\ p2 # p1)

C10_Witness == ppc = "twice" /\ pv = Num(1) /\ p1 = Num(100) /\ p2 = Num(10000)

\* What the page shows of the sections: per element, the section and
\* whether it is the header, the not-found notice or a chart.
RECURSIVE SectionTrace(_)
SectionTrace(els) ==
    IF els = <<>> THEN <<>>
    ELSE LET e == Head(els)
             rest == SectionTrace(Tail(els))
         IN CASE e.kind = "markdown" -> <<<<e.section, "header">>>> \o rest
              [] e.kind = "info" -> <<<<e.section, "notice">>>> \o rest
              [] e.kind \in ChartKinds -> <<<<e.section, "chart">>>> \o rest
              [] OTHER -> rest

\* The page of the four sections in order, a notice for each absent or
\* empty sheet and the charts of each other one
ExpectedOf(ss, name) ==
    <<<<name, "header">>>> \o
    (IF AbsentOrEmpty(ss, name) THEN <<<<name, "notice">>>>
     ELSE IF name = OVERALL THEN <<<<name, "chart">>, <<name, "chart">>>>
     ELSE <<<<name, "chart">>>>)

ExpectedTrace(ss) ==
    ExpectedOf(ss, OVERALL) \o ExpectedOf(ss, STRENGTHS)
    \o ExpectedOf(ss, IMPROVE) \o ExpectedOf(ss, TREND)

\* the columns the section of a sheet reads by name
ExpectedCols(name) ==
    CASE name = OVERALL -> {"Category", "Percentage"}
      [] name = TREND -> {}
      [] OTHER -> {"Question", "Positive", "Neutral", "Negative"}

LacksColumn(ss, name) ==
    /\ ~AbsentOrEmpty(ss, name)
    /\ \E c \in ExpectedCols(name) : ~HasCol(ss.tab[name], c)

Visited(name) == \E i \in DOMAIN out : out[i].kind = "markdown" /\ out[i].section = name

\* C2: whatever sheets are absent or empty, a render that loaded its sheet
\* set ends with the four sections in order, a not-found notice for exactly
\* the absent or empty sheets and the charts of every other section.
C2_SectionsIndependent ==
    (Finished /\ returned.ok) => SectionTrace(out) = ExpectedTrace(returned)

\* The same with every present sheet carrying its columns: the render never
\* stops, whatever sheets are absent or empty.
SectionsIndependentGivenColumns ==
    (Finished /\ returned.ok /\ \A n \in SheetNames : ~LacksColumn(returned, n)) =>
        (pc = "done" /\ SectionTrace(out) = ExpectedTrace(returned))

\* C4: a section whose sheet is present and non-empty but lacks an expected
\* column shows a notice instead of its charts, and the render goes on.
C4_MissingColumnFallsBack ==
    \A n \in SheetNames :
        (returned.ok /\ Visited(n) /\ LacksColumn(returned, n)) =>
            /\ pc # "crashed"
            /\ \E i \in DOMAIN out : out[i].kind = "info" /\ out[i].section = n

\* C5: the sheet set the loader returned is never changed: at every point
\* of every render each of its cells holds the value load_excel returned.
C5_SheetsNeverMutated ==
    sheets.ok => sheets = returned

\* C8: when load_excel fails the render ends there: after one call and one
\* attempt to read the file, with no section header, notice, chart, table
\* or slider on the page.
LoadFailed == pc # "load" /\ ~returned.ok

C8_LoadFailureFatal ==
    /\ (pc # "load" /\ ~cache.ok /\ ~disk.ok) => LoadFailed
    /\ LoadFailed =>
          /\ pc = "crashed"
          /\ calls = 1
          /\ reads = renders
          /\ \A i \in DOMAIN out :
                out[i].kind \notin ChartKinds \cup
                    {"markdown", "info", "metric", "dataframe", "sidebar.slider"}

C8_Witness ==
    /\ LoadFailed
    /\ renders = 2
    /\ out = <<SidebarHeader, Exception("LoadError")>>

ElemsOf(kind) == SelectSeq(out, LAMBDA e : e.kind = kind)

\* the order among those sort_values may return that keeps rows with equal
\* keys in row order
StableOrder(df, c, ascending) ==
    CHOOSE p \in SortOrders(df, c, ascending) :
        \A i, j \in 1..NRowsOf(df) :
            (i < j /\ df.col[c][p[i]] = df.col[c][p[j]]) => p[i] < p[j]

\* the labels of the first min(n, rows) rows of df in the order that sorts the
\* normalized Positive column and keeps rows with equal values in row order
StableTopN(df, ascending, n) ==
    LET normal == ApplyToPct3(df)
        p == StableOrder(normal, "Positive", ascending)
    IN [i \in 1..Min(n, NRowsOf(df)) |-> p[i] - 1]

\* C3: the rows a Top-N section shows are the first min(N, rows) rows of the
\* table sorted by the normalized Positive column (descending for Top
\* Strengths, ascending for Areas to Improve), rows with equal values in
\* their original order.
C3_TopNStable ==
    /\ strengths_disp # NoDF =>
          strengths_disp.index = StableTopN(returned.tab[STRENGTHS], FALSE, top_n)
    /\ improve_disp # NoDF =>
          improve_disp.index = StableTopN(returned.tab[IMPROVE], TRUE, top_n)

\* The part of it that does not rest on the order of equal values: the
\* number of rows shown and their order by the normalized Positive column.
TopNSorted(disp, raw, ascending) ==
    disp # NoDF =>
        /\ NRowsOf(disp) = Min(top_n, NRowsOf(raw))
        /\ \A i \in 1..NRowsOf(disp) :
              disp.col["Positive"][i] = to_pct(raw.col["Positive"][disp.index[i] + 1])
        /\ \A i, j \in 1..NRowsOf(disp) : i < j =>
              LET a == disp.col["Positive"][i]
                  b == disp.col["Positive"][j]
              IN isna(b) \/ (~isna(a) /\ (IF ascending THEN a.n <= b.n ELSE a.n >= b.n))

TopNSortedBothSections ==
    /\ TopNSorted(strengths_disp, IF returned.ok /\ ~Absent(returned, STRENGTHS)
                                  THEN returned.tab[STRENGTHS] ELSE NoDF, FALSE)
    /\ TopNSorted(improve_disp, IF returned.ok /\ ~Absent(returned, IMPROVE)
                                THEN returned.tab[IMPROVE] ELSE NoDF, TRUE)

\* the normalizer applied once to every cell of a column
OnceCol(c) == [i \in DOMAIN c |-> to_pct(c[i])]

\* the rows of a raw column a *_disp table shows, normalized once
OnceShown(raw, c, disp) == [i \in DOMAIN disp.index |-> to_pct(raw.col[c][disp.index[i] + 1])]

FirstRowOf(df, label) ==
    CHOOSE i \in DOMAIN df.index :
        /\ Lower(df.col["Category"][i].s) = Lower(label)
        /\ \A j \in 1..(i - 1) : Lower(df.col["Category"][j].s) # Lower(label)

\* C6: every percentage on the page is the normalizer applied exactly once
\* to the raw cell: the metrics, the donut and the bars of the Overall
\* Summary, the stacked bars (the same numbers as the table under them) and
\* the trend lines in both layouts.
C6_NormalizedOnce ==
    \A i \in DOMAIN out :
        LET e == out[i]
        IN CASE e.kind = "metric" ->
                  LET raw == returned.tab[OVERALL]
                      v == to_pct(raw.col["Percentage"][FirstRowOf(raw, e.label)])
                  IN e.value = Round1(v.n)
             [] e.kind = "donut" -> e.values = OnceCol(returned.tab[OVERALL].col["Percentage"])
             [] e.kind = "bar" -> e.y = OnceCol(returned.tab[OVERALL].col["Percentage"])
             [] e.kind = "stacked" ->
                  LET raw == returned.tab[e.section]
                      disp == IF e.section = STRENGTHS THEN strengths_disp ELSE improve_disp
                      shown == out[i + 1].df
                  IN /\ e.pos = OnceShown(raw, "Positive", disp)
                     /\ e.neu = OnceShown(raw, "Neutral", disp)
                     /\ e.neg = OnceShown(raw, "Negative", disp)
                     /\ e.pos = shown.col["Positive"]
                     /\ e.neu = shown.col["Neutral"]
                     /\ e.neg = shown.col["Negative"]
             [] e.kind = "line" ->
                  LET raw == returned.tab[TREND]
                  IN IF e.color = <<>>
                     THEN \E c \in Range(raw.columns) :
                             Lower(c) = "positive %" /\ e.y = OnceCol(raw.col[c])
                     ELSE \A k \in DOMAIN e.y :
                             e.y[k] = to_pct(raw.col[e.color[k].s][((k - 1) % NRowsOf(raw)) + 1])
             [] OTHER -> TRUE

\* C7: without an explicit cache clear the file is parsed at most once;
\* every load_excel call after the first result returns that result, reads
\* and parses nothing, whatever the file on disk has become since.
C7_LoadedOnce ==
    /\ [](~cleared => (parses <= 1 /\ (returned.ok => returned = first)))
    /\ [][(~cleared' /\ first.ok) => (reads' = reads /\ parses' = parses)]_vars

C7_Witness ==
    /\ ~cleared
    /\ renders = 2
    /\ pc = "done"
    /\ returned = first
    /\ disk # first
    /\ disk.ok
    /\ reads = 1

\* C9: a Positive % column (in any case) gives one line over the first
\* column; otherwise the table is reshaped into rows x series-columns-present
\* long rows (x, Category, Percent), Percent the normalized cell, one block
\* per series column in the column order of the sheet.  Years 2020, 2021
\* with Positive 0.8, 0.9, Neutral 0.15, 0.05 and Negative 0.05, 0.05 give
\* Percent 80, 90, 15, 5, 5, 5.
TrendRendered == pc = "done" /\ ~AbsentOrEmpty(returned, TREND)

ExamplePercent == <<Num(8000), Num(9000), Num(1500), Num(500), Num(500), Num(500)>>

C9_TrendShape ==
    TrendRendered =>
        LET raw == returned.tab[TREND]
            n == NRowsOf(raw)
            x == raw.col[raw.columns[1]]
            lines == ElemsOf("line")
            single == {j \in DOMAIN raw.columns : Lower(raw.columns[j]) = "positive %"}
            series == {j \in DOMAIN raw.columns :
                          Lower(raw.columns[j]) \in {"positive", "neutral", "negative"}}
            \* the position among the series columns of the k-th long row
            \* and the column of the sheet at that position
            blockOf(k) == ((k - 1) \div n) + 1
            columnOf(b) == CHOOSE j \in series : Cardinality({h \in series : h < j}) = b - 1
        IN /\ Len(lines) = 1
           /\ IF single # {}
              THEN /\ lines[1].color = <<>>
                   /\ lines[1].x = x
              ELSE /\ Len(lines[1].y) = n * Cardinality(series)
                   /\ Len(lines[1].x) = Len(lines[1].y)
                   /\ Len(lines[1].color) = Len(lines[1].y)
                   /\ \A k \in DOMAIN lines[1].y :
                         LET c == raw.columns[columnOf(blockOf(k))]
                             r == ((k - 1) % n) + 1
                         IN /\ lines[1].x[k] = x[r]
                            /\ lines[1].color[k] = Str(c)
                            /\ lines[1].y[k] = to_pct(raw.col[c][r])
           /\ raw = TrendWide => lines[1].y = ExamplePercent

C9_Witness ==
    /\ TrendRendered
    /\ returned.tab[TREND] = TrendWide
    /\ ElemsOf("line")[1].y = ExamplePercent
    /\ Len(ElemsOf("line")[1].x) = 6

====
